---------------------------- MODULE Spec2Model ----------------------------
(***************************************************************************)
(* Model of the text-rendering core of gemininini:                         *)
(*   - WrappedText (src/src/elements/wrapped_text.rs): rewrap, lines       *)
(*   - Graph       (src/src/elements/graph.rs): new, with_*, push, iter    *)
(*   - State       (src/src/state.rs): prepare_lines                       *)
(* Strings are sequences of characters; a character is a TLA+ string that  *)
(* names one Unicode scalar value.  Byte offsets are computed from the     *)
(* UTF-8 length of each character, so offsets and character positions      *)
(* differ as soon as a multi-byte character occurs.                        *)
(* f32 values are modelled as integers (no NaN, no rounding).              *)
(* The u32/usize sums of glyph widths stay far below 2^32 within the       *)
(* bounds, so they are plain integers; the one usize subtraction that can  *)
(* underflow (index - 1 in prepare_lines) is modelled explicitly.          *)
(***************************************************************************)
EXTENDS Integers, Sequences, FiniteSets, TLC

VARIABLES
    text,        \* WrappedText.0: the owned String
    breaklist,   \* WrappedText.1: the Vec<usize> of break offsets
    maxwidth,    \* the maxwidth argument of the last rewrap
    font,        \* the font argument of the last rewrap
    text0,       \* the text handed to the constructor (history)
    prev,        \* the BreakList before the last rewrap, Some(list); None when fresh (history)
    lines_out,   \* what the last traversal of lines() produced
    inner,       \* Graph.0: the VecDeque<f32>, front first
    range,       \* Graph.1: the Range {min, max}
    capacity,    \* the size handed to Graph::new (history)
    pushed,      \* the values pushed so far, in push order (history)
    state,       \* the State struct
    deque,       \* prepare_lines: the local VecDeque of pending lines
    pc,          \* prepare_lines: "idle", "running", "done", "panicked"
    canvas,      \* the Pixels buffer: texture size and frame bytes
    block,       \* the Block the last draw returned, Some(block); None once blitted
    drawn,       \* the arguments of the last draw (history)
    blit,        \* the last draw_onto_pixels: block, start_y, frame before, outcome (history)
    entry,       \* the State on entry to the last prepare_lines, Some(..); None after any other call (history)
    shown        \* what the State::draw just made did, Some(..); None after any other call

wrapVars  == <<text, breaklist, maxwidth, font, text0, prev, lines_out>>
graphVars == <<inner, range, capacity, pushed>>
stateVars == <<state, deque, pc, entry, shown>>
drawVars  == <<canvas, block, drawn, blit>>
vars == <<text, breaklist, maxwidth, font, text0, prev, lines_out,
          inner, range, capacity, pushed, state, deque, pc,
          canvas, block, drawn, blit, entry, shown>>

---------------------------------------------------------------------------
(* Bounds of the model *)

MaxLen == 4       \* longest text / page content, in characters
MaxW == 3         \* largest maxwidth tried with the proportional font
MaxCap == 3       \* largest Graph capacity
MaxPushes == 4    \* longest sequence of Graph::push calls
MaxWindow == 6    \* largest window_width
MaxLine == 2      \* longest line handed to draw, in characters
MaxFbW == 3       \* widest framebuffer, in pixels
MaxFbH == 4       \* tallest framebuffer, in rows

---------------------------------------------------------------------------
(* Option<T> *)

None == <<>>
Some(x) == <<x>>
IsSome(o) == o # <<>>
Unwrap(o) == o[1]

---------------------------------------------------------------------------
(* Characters and fonts *)

NL == "\n"
SP == " "
EACUTE == "U+00E9"   \* a 2-byte character that is not whitespace
NBSP == "U+00A0"     \* a 2-byte character that is whitespace

Letters == {"a", "b", "c", "d", "e", "f"}
Alphabet == {"a", SP, NL, EACUTE, NBSP}

IsWhitespace(ch) == ch \in {SP, NL, NBSP}

Utf8Len(ch) == IF ch \in {EACUTE, NBSP} THEN 2 ELSE 1

Fonts == {"mono10", "prop"}

\* font.glyph(ch): the glyph's width, or None when the font has no glyph
Glyph(f, ch) ==
    IF f = "mono10" THEN Some(10)
    ELSE IF f = "diag" THEN (IF ch = "A" THEN Some(3) ELSE None)
    ELSE IF ch \in Letters THEN Some(2)
    ELSE IF ch = SP THEN Some(1)
    ELSE IF ch = EACUTE THEN Some(0)
    ELSE None

RECURSIVE SeqsUpTo(_, _)
SeqsUpTo(S, n) ==
    IF n = 0 THEN {<<>>}
    ELSE LET shorter == SeqsUpTo(S, n - 1)
         IN shorter \cup {Append(s, x) : s \in {t \in shorter : Len(t) = n - 1}, x \in S}

\* the texts tried: every text of up to MaxLen ASCII characters, and every
\* text of up to MaxLen - 1 characters that may be multi-byte
AsciiAlphabet == {"a", SP, NL}
Texts == SeqsUpTo(AsciiAlphabet, MaxLen) \cup SeqsUpTo(Alphabet, MaxLen - 1)

ScenarioText == <<"a", "b", SP, "c", "d", SP, "e", "f">>

\* the (font, maxwidth) pairs rewrap is called with
RewrapArgs ==
    {<<"prop", m>> : m \in {None} \cup {Some(w) : w \in 0..MaxW}}
        \cup {<<"mono10", None>>, <<"mono10", Some(5)>>, <<"mono10", Some(25)>>}

---------------------------------------------------------------------------
(* str: byte offsets and slices *)

RECURSIVE ByteOffset(_, _)
\* the byte offset of the k-th character boundary (k = 0..Len)
ByteOffset(s, k) == IF k = 0 THEN 0 ELSE ByteOffset(s, k - 1) + Utf8Len(s[k])

StrLen(s) == ByteOffset(s, Len(s))

IsCharBoundary(s, off) == \E k \in 0..Len(s) : ByteOffset(s, k) = off

BoundaryIndex(s, off) == CHOOSE k \in 0..Len(s) : ByteOffset(s, k) = off

Panic == "panic"

\* &s[from..to]: panics unless from <= to <= len and both are char boundaries
StrSliceOk(s, from, to) ==
    /\ from <= to
    /\ IsCharBoundary(s, from)
    /\ IsCharBoundary(s, to)

StrSlice(s, from, to) ==
    IF StrSliceOk(s, from, to)
    THEN SubSeq(s, BoundaryIndex(s, from) + 1, BoundaryIndex(s, to))
    ELSE Panic

---------------------------------------------------------------------------
(* WrappedText::rewrap *)

\* mutant: the previous list is not cleared
ClearKeep(bl) == bl

Clear(bl) == <<>>

ScanInit(bl) ==
    [scrapwidth |-> 0, wordwidth |-> 0, last_whitespace |-> None,
     breaklist |-> Clear(bl)]

GlyphWidth(f, ch) == IF IsSome(Glyph(f, ch)) THEN Unwrap(Glyph(f, ch)) ELSE 0

\* mutant: a newline keeps the remembered whitespace
OnNewlineKeepWhitespace(st, idx) ==
    [scrapwidth |-> 0, wordwidth |-> 0, last_whitespace |-> st.last_whitespace,
     breaklist |-> Append(st.breaklist, idx)]

OnNewline(st, idx) ==
    [scrapwidth |-> 0, wordwidth |-> 0, last_whitespace |-> None,
     breaklist |-> Append(st.breaklist, idx)]

\* mutant: without a remembered whitespace the break goes to the start of the text
OnBreakAtZero(st, idx, lw, ww, g) ==
    LET br  == IF IsSome(lw) THEN Unwrap(lw) ELSE 0
        ww0 == IF IsSome(lw) THEN ww ELSE 0
    IN [scrapwidth |-> ww0 + g, wordwidth |-> ww0 + g, last_whitespace |-> lw,
        breaklist |-> Append(st.breaklist, br)]

\* mutant: after a break only the current glyph is carried forward
OnBreakGlyphOnly(st, idx, lw, ww, g) ==
    LET br  == IF IsSome(lw) THEN Unwrap(lw) ELSE idx
    IN [scrapwidth |-> g, wordwidth |-> g, last_whitespace |-> lw,
        breaklist |-> Append(st.breaklist, br)]

OnBreak(st, idx, lw, ww, g) ==
    LET br  == IF IsSome(lw) THEN Unwrap(lw) ELSE idx
        ww0 == IF IsSome(lw) THEN ww ELSE 0
    IN [scrapwidth |-> ww0 + g, wordwidth |-> ww0 + g, last_whitespace |-> lw,
        breaklist |-> Append(st.breaklist, br)]

OnChar(st, idx, ch, mw, f) ==
    LET lw == IF IsWhitespace(ch) THEN Some(idx) ELSE st.last_whitespace
        ww == IF IsWhitespace(ch) THEN 0 ELSE st.wordwidth
        g  == GlyphWidth(f, ch)
    IN IF st.scrapwidth + g > Unwrap(mw)
       THEN OnBreak(st, idx, lw, ww, g)
       ELSE [scrapwidth |-> st.scrapwidth + g, wordwidth |-> ww + g,
             last_whitespace |-> lw, breaklist |-> st.breaklist]

\* mutant: a missing maxwidth is read as width 0 instead of "do not wrap"
ScanStepUnwrapOr0(st, idx, ch, mw, f) ==
    IF ch = NL THEN OnNewline(st, idx)
    ELSE OnChar(st, idx, ch, IF IsSome(mw) THEN mw ELSE Some(0), f)

ScanStep(st, idx, ch, mw, f) ==
    IF ch = NL THEN OnNewline(st, idx)
    ELSE IF IsSome(mw) THEN OnChar(st, idx, ch, mw, f)
    ELSE st

RECURSIVE Scan(_, _, _, _, _)
\* the scanner after the first k characters of txt
Scan(txt, bl, mw, f, k) ==
    IF k = 0 THEN ScanInit(bl)
    ELSE ScanStep(Scan(txt, bl, mw, f, k - 1), ByteOffset(txt, k - 1), txt[k], mw, f)

\* mutant: the final boundary counts characters instead of bytes
FinalBoundaryChars(txt) == Len(txt)

FinalBoundary(txt) == StrLen(txt)

Rewrap(txt, bl, mw, f) ==
    Append(Scan(txt, bl, mw, f, Len(txt)).breaklist, FinalBoundary(txt))

NewWithoutWidth(txt, mw, f) == Rewrap(txt, <<>>, mw, f)

---------------------------------------------------------------------------
(* WrappedText::lines, lines_count *)

DropFirstByte(a) == StrSlice(a, 1, StrLen(a))

LineItem(txt, runner, breakpoint) ==
    LET a == StrSlice(txt, runner, breakpoint)
    IN IF a = Panic THEN Panic
       ELSE IF Len(a) > 0 /\ IsWhitespace(a[1]) THEN DropFirstByte(a)
       ELSE a

RECURSIVE LinesFrom(_, _, _, _)
\* the items the iterator yields from position k on; a panic ends the traversal
LinesFrom(txt, bl, k, runner) ==
    IF k > Len(bl) THEN [panicked |-> FALSE, items |-> <<>>]
    ELSE LET item == LineItem(txt, runner, bl[k])
         IN IF item = Panic THEN [panicked |-> TRUE, items |-> <<>>]
            ELSE LET rest == LinesFrom(txt, bl, k + 1, bl[k])
                 IN [panicked |-> rest.panicked, items |-> <<item>> \o rest.items]

Lines(txt, bl) == LinesFrom(txt, bl, 1, 0)

LinesCount(bl) == Len(bl)

NotCalled == [called |-> FALSE, panicked |-> FALSE, items |-> <<>>]

---------------------------------------------------------------------------
(* Graph: a VecDeque<f32> (front first) and a Range *)

Values == {-1, 0, 1, 2, 3, 4}
\* the bounds the with_min / with_max / with_range calls are given
ClampBounds == {1, 3}
\* f32::INFINITY and f32::NEG_INFINITY: beyond every value of the model
F32Infinity == 1000
F32NegInfinity == -1000

\* VecDeque::resize(size, 0.0) on an empty deque
Resize(size) == [i \in 1..size |-> 0]

GraphNew(size) == [inner |-> Resize(size), range |-> [min |-> None, max |-> None]]

SaturatingSub(a, b) == IF a >= b THEN a - b ELSE 0

\* VecDeque::truncate(len): keeps the first len elements
Truncate(q, len) == IF len >= Len(q) THEN q ELSE SubSeq(q, 1, len)

\* mutant: the value is pushed to the back
PushBack(q, value) == Append(q, value)

PushFront(q, value) == <<value>> \o q

GraphPush(q, value) == PushFront(Truncate(q, SaturatingSub(Len(q), 1)), value)

GraphLen(q) == Len(q)

Min2(a, b) == IF a <= b THEN a ELSE b
Max2(a, b) == IF a >= b THEN a ELSE b

\* mutant: with both bounds set only the upper one is applied
RangeClampUpperOnly(r, value) ==
    IF ~IsSome(r.min) /\ ~IsSome(r.max) THEN value
    ELSE IF ~IsSome(r.min) THEN Min2(value, Unwrap(r.max))
    ELSE IF ~IsSome(r.max) THEN Max2(value, Unwrap(r.min))
    ELSE Min2(value, Unwrap(r.max))

\* Range::clamp; f32::clamp panics when min > max
RangeClamp(r, value) ==
    IF ~IsSome(r.min) /\ ~IsSome(r.max) THEN value
    ELSE IF ~IsSome(r.min) THEN Min2(value, Unwrap(r.max))
    ELSE IF ~IsSome(r.max) THEN Max2(value, Unwrap(r.min))
    ELSE IF Unwrap(r.min) > Unwrap(r.max) THEN Panic
    ELSE Max2(Unwrap(r.min), Min2(value, Unwrap(r.max)))

\* Graph::iter: front to back, each element clamped on read
GraphIter(q, r) == [i \in 1..Len(q) |-> RangeClamp(r, q[i])]

\* Graph::inner_mut: the storage itself
InnerMut(q) == q

GraphIsEmpty(q) == Len(q) = 0

RECURSIVE FoldMin(_, _)
\* Iterator::fold(acc, f32::min)
FoldMin(xs, acc) == IF Len(xs) = 0 THEN acc ELSE FoldMin(Tail(xs), Min2(acc, xs[1]))

RECURSIVE FoldMax(_, _)
\* Iterator::fold(acc, f32::max)
FoldMax(xs, acc) == IF Len(xs) = 0 THEN acc ELSE FoldMax(Tail(xs), Max2(acc, xs[1]))

\* mutant: the minimum is taken over the storage, not over the clamped values
GraphMinUnclamped(q, r) ==
    IF GraphIsEmpty(q) THEN 0
    ELSE IF IsSome(r.min) THEN Unwrap(r.min)
    ELSE FoldMin(q, F32Infinity)

\* Graph::min
GraphMin(q, r) ==
    IF GraphIsEmpty(q) THEN 0
    ELSE IF IsSome(r.min) THEN Unwrap(r.min)
    ELSE FoldMin(GraphIter(q, r), F32Infinity)

\* mutant: the maximum is taken over the storage, not over the clamped values
GraphMaxUnclamped(q, r) ==
    IF GraphIsEmpty(q) THEN 0
    ELSE IF IsSome(r.max) THEN Unwrap(r.max)
    ELSE FoldMax(q, F32NegInfinity)

\* Graph::max
GraphMax(q, r) ==
    IF GraphIsEmpty(q) THEN 0
    ELSE IF IsSome(r.max) THEN Unwrap(r.max)
    ELSE FoldMax(GraphIter(q, r), F32NegInfinity)

---------------------------------------------------------------------------
(* State::prepare_lines *)

PageAlphabet == {"a", SP, NL, NBSP}
WordAlphabet == {"a", "b", SP, NL}
PageTexts == SeqsUpTo(PageAlphabet, MaxLen) \cup SeqsUpTo(WordAlphabet, MaxLen + 1)

\* no terminating run produces more than MaxLen + 1 lines; the loop stops
\* being followed once it has produced OutCap lines
OutCap == MaxLen + 3

RECURSIVE SplitOn(_, _, _)
\* the pieces of s from position k on, cut at the characters of seps
SplitOn(s, seps, k) ==
    IF k > Len(s) THEN <<<<>>>>
    ELSE LET rest == SplitOn(s, seps, k + 1)
         IN IF s[k] \in seps THEN <<<<>>>> \o rest
            ELSE <<<<s[k]>> \o rest[1]>> \o Tail(rest)

\* str::lines: split at "\n"; a final empty piece is no line
StrLines(s) ==
    LET pieces == SplitOn(s, {NL}, 1)
    IN IF pieces[Len(pieces)] = <<>> THEN SubSeq(pieces, 1, Len(pieces) - 1)
       ELSE pieces

\* str::split_whitespace: the non-empty pieces between whitespace
SplitWhitespace(s) ==
    SelectSeq(SplitOn(s, {SP, NL, NBSP}, 1), LAMBDA w : w # <<>>)

RECURSIVE Join(_, _)
\* [&str]::join(sep)
Join(words, sep) ==
    IF Len(words) = 0 THEN <<>>
    ELSE IF Len(words) = 1 THEN words[1]
    ELSE words[1] \o sep \o Join(Tail(words), sep)

RECURSIVE Width(_, _)
\* <&str as Draw>::width: the sum of the widths of the glyphs the font has
Width(s, f) == IF Len(s) = 0 THEN 0 ELSE GlyphWidth(f, s[1]) + Width(Tail(s), f)

LoopCond(words, index, s, f, w) == index < Len(words) /\ Width(s, f) < w

RECURSIVE FillIndex(_, _, _, _, _)
\* the inner while loop: the value of index when it ends
FillIndex(words, index, s, f, w) ==
    IF LoopCond(words, index, s, f, w)
    THEN FillIndex(words, index + 1, s \o words[index + 1] \o <<SP>>, f, w)
    ELSE index

\* mutant: the word that did not fit is left out of the re-queued line
IterOutcomeDropWord(line, f, w) ==
    LET words == SplitWhitespace(line)
        index == FillIndex(words, 0, <<>>, f, w)
    IN IF Len(words) > index
       THEN IF index = 0
            THEN [panic |-> TRUE, out |-> <<>>, requeue |-> None]
            ELSE [panic |-> FALSE,
                  out |-> Join(SubSeq(words, 1, index - 1), <<SP>>),
                  requeue |-> Some(Join(SubSeq(words, index + 1, Len(words)), <<SP>>))]
       ELSE [panic |-> FALSE,
             out |-> Join(SubSeq(words, 1, index), <<SP>>),
             requeue |-> None]

\* one pass of the outer loop over the popped line: the line pushed to
\* content_lines and the line pushed back to the front of the deque (or None);
\* index - 1 with index = 0 overflows (debug) or makes get() return None to
\* unwrap (release): a panic in either build
IterOutcome(line, f, w) ==
    LET words == SplitWhitespace(line)
        index == FillIndex(words, 0, <<>>, f, w)
    IN IF Len(words) > index
       THEN IF index = 0
            THEN [panic |-> TRUE, out |-> <<>>, requeue |-> None]
            ELSE [panic |-> FALSE,
                  out |-> Join(SubSeq(words, 1, index - 1), <<SP>>),
                  requeue |-> Some(Join(SubSeq(words, index, Len(words)), <<SP>>))]
       ELSE [panic |-> FALSE,
             out |-> Join(SubSeq(words, 1, index), <<SP>>),
             requeue |-> None]

NORMAL_MODE == <<"n", "o", "r", "m", "a", "l">>
INSERT_MODE == <<"i", "n", "s", "e", "r", "t">>
LINK_MODE == <<"l", "i", "n", "k">>

\* State::new
StateNew(f, fg, bg, address, content, w, h) ==
    [font |-> f, foreground |-> fg, background |-> bg,
     page_address |-> address, page_content |-> content,
     window_width |-> w, window_height |-> h,
     content_lines |-> <<>>, starting_line |-> 0, mode |-> NORMAL_MODE]

\* mutant: the lines of the previous call are kept
ClearLinesKeep(st) == st

\* prepare_lines, line 119: self.content_lines.clear()
ClearLines(st) == [st EXCEPT !.content_lines = <<>>]

---------------------------------------------------------------------------
(* Glyph compositor and block blitter: <&str as Draw>::draw, Block *)

PIXEL_SIZE == 4

White == <<255, 255, 255, 255>>
Black == <<0, 0, 0, 0>>
Red == <<255, 0, 0, 255>>

DrawFonts == {"prop", "diag"}

\* font.height()
FontHeight(f) == IF f = "diag" THEN 3 ELSE IF f = "prop" THEN 2 ELSE 1

\* glyph.rows(): FontHeight rows of glyph-width coverage cells
GlyphRows(f, ch) ==
    IF f = "diag"
    THEN << <<TRUE, FALSE, FALSE>>, <<FALSE, TRUE, FALSE>>, <<FALSE, FALSE, TRUE>> >>
    ELSE IF f = "mono10" THEN << [x \in 1..10 |-> x % 2 = 1] >>
    ELSE IF ch \in Letters THEN << <<TRUE, FALSE>>, <<TRUE, TRUE>> >>
    ELSE IF ch = SP THEN << <<FALSE>>, <<FALSE>> >>
    ELSE << <<>>, <<>> >>

\* self.chars().flat_map(|ch| font.glyph(ch)): the characters that have a glyph
GlyphChars(line, f) == SelectSeq(line, LAMBDA ch : IsSome(Glyph(f, ch)))

RECURSIVE SumWidths(_, _)
SumWidths(chars, f) ==
    IF Len(chars) = 0 THEN 0 ELSE Unwrap(Glyph(f, chars[1])) + SumWidths(Tail(chars), f)

\* mutant: a character without a glyph takes one blank column
DrawWidthPlaceholder(line, f) ==
    SumWidths(GlyphChars(line, f), f) + (Len(line) - Len(GlyphChars(line, f)))

\* draw, line 73: the width of the block
DrawWidth(line, f) == SumWidths(GlyphChars(line, f), f)

\* vec![state.background; height * width]
Prefill(colour, n) == [i \in 1..n |-> colour]

\* mutant: only the set cells are written, the others keep the prefill
PaintGlyphSetOnly(pixels, rows, x0, width, fg, bg) ==
    [i \in 1..Len(pixels) |->
        LET y == (i - 1) \div width
            x == (i - 1) % width
        IN IF y < Len(rows) /\ x >= x0 /\ x < x0 + Len(rows[y + 1])
              /\ rows[y + 1][x - x0 + 1]
           THEN fg
           ELSE pixels[i]]

\* draw, lines 78-84: every cell of the glyph at cursor x0 is written,
\* pixels[y * width + x0 + xg] = fg where the cell is set, bg where it is not
PaintGlyph(pixels, rows, x0, width, fg, bg) ==
    [i \in 1..Len(pixels) |->
        LET y == (i - 1) \div width
            x == (i - 1) % width
        IN IF y < Len(rows) /\ x >= x0 /\ x < x0 + Len(rows[y + 1])
           THEN (IF rows[y + 1][x - x0 + 1] THEN fg ELSE bg)
           ELSE pixels[i]]

RECURSIVE PaintGlyphs(_, _, _, _, _, _, _)
\* draw, lines 77-86: the glyphs in order, the cursor advancing by each width
PaintGlyphs(pixels, chars, f, x0, width, fg, bg) ==
    IF Len(chars) = 0 THEN pixels
    ELSE PaintGlyphs(PaintGlyph(pixels, GlyphRows(f, chars[1]), x0, width, fg, bg),
                     Tail(chars), f, x0 + Unwrap(Glyph(f, chars[1])), width, fg, bg)

\* <&str as Draw>::draw
Draw(line, f, state_background, fg, bg) ==
    LET height == FontHeight(f)
        width  == DrawWidth(line, f)
    IN [height |-> height,
        pixels |-> PaintGlyphs(Prefill(state_background, height * width),
                               GlyphChars(line, f), f, 0, width, fg, bg)]

\* Block::width (the font heights of the model are positive)
BlockWidth(b) == Len(b.pixels) \div b.height

\* Block::rows: None for a block of width 0, else the rows of width pixels
BlockRows(b) ==
    IF BlockWidth(b) = 0 THEN None
    ELSE Some([y \in 1..(Len(b.pixels) \div BlockWidth(b)) |->
                  SubSeq(b.pixels, (y - 1) * BlockWidth(b) + 1, y * BlockWidth(b))])

RECURSIVE Flatten(_)
\* <[Pixel]>::flatten: the bytes of the pixels
Flatten(row) == IF Len(row) = 0 THEN <<>> ELSE row[1] \o Flatten(Tail(row))

\* frame[idx..idx + len].copy_from_slice(bytes); the range must be inside the frame
CopyAt(frame, idx, bytes) ==
    IF idx + Len(bytes) > Len(frame) THEN [panicked |-> TRUE, frame |-> frame]
    ELSE [panicked |-> FALSE,
          frame |-> [i \in 1..Len(frame) |->
                        IF i > idx /\ i <= idx + Len(bytes) THEN bytes[i - idx]
                        ELSE frame[i]]]

\* mutant: the row offset is computed from the block's width
BlitRowBlockStride(frame, fb_width, row, start_y, y) ==
    CopyAt(frame, ((start_y + y) * Len(row)) * PIXEL_SIZE, Flatten(row))

\* draw_onto_pixels, lines 46-48: row y of the block
BlitRow(frame, fb_width, row, start_y, y) ==
    CopyAt(frame, ((start_y + y) * fb_width) * PIXEL_SIZE, Flatten(row))

RECURSIVE BlitRows(_, _, _, _, _)
\* draw_onto_pixels, line 45: the rows from y on; a panic keeps what was written
BlitRows(frame, fb_width, rows, start_y, y) ==
    IF y >= Len(rows) THEN [panicked |-> FALSE, frame |-> frame]
    ELSE LET next == BlitRow(frame, fb_width, rows[y + 1], start_y, y)
         IN IF next.panicked THEN next
            ELSE BlitRows(next.frame, fb_width, rows, start_y, y + 1)

\* Block::draw_onto_pixels
DrawOntoPixels(b, frame, fb_width, start_y) ==
    IF IsSome(BlockRows(b))
    THEN BlitRows(frame, fb_width, Unwrap(BlockRows(b)), start_y, 0)
    ELSE [panicked |-> FALSE, frame |-> frame]

\* the lines handed to draw
DrawLines(f) ==
    IF f = "diag" THEN {<<>>, <<"A">>, <<"A", "A">>, <<"a", "A">>}
    ELSE SeqsUpTo({"a", SP, EACUTE, NBSP}, MaxLine)

\* (state.background, foreground, background): draw_default, the swapped
\* call of State::draw, and a call whose colours both differ from the state's
DrawColours ==
    {<<Black, White, Black>>, <<Black, Black, White>>, <<Red, White, Black>>}

\* the frames a blit starts from
Frames(w, h) ==
    {[i \in 1..(w * h * PIXEL_SIZE) |-> 7],
     [i \in 1..(w * h * PIXEL_SIZE) |-> i % 2]}

---------------------------------------------------------------------------
(* State::draw and the setters of State *)

Digits == <<"0", "1", "2", "3", "4", "5", "6", "7", "8", "9">>

RECURSIVE UsizeToString(_)
\* usize::to_string
UsizeToString(n) ==
    IF n < 10 THEN <<Digits[n + 1]>> ELSE UsizeToString(n \div 10) \o <<Digits[(n % 10) + 1]>>

\* line.starts_with("=>")
StartsWithArrow(line) == Len(line) >= 2 /\ line[1] = "=" /\ line[2] = ">"

\* s.draw(state, fg, bg).draw_onto_pixels(pixels, start_y) within State::draw;
\* the texture is as wide as the window; nothing more happens after a panic
ViewBlit(acc, st, s, fg, bg, start_y, kind) ==
    IF acc.panicked THEN acc
    ELSE LET r == DrawOntoPixels(Draw(s, st.font, st.background, fg, bg),
                                 acc.frame, st.window_width, start_y)
         IN [panicked |-> r.panicked, frame |-> r.frame,
             blits |-> Append(acc.blits, [kind |-> kind, row |-> start_y, wrapped |-> FALSE])]

RECURSIVE DrawContent(_, _, _, _, _, _)
\* State::draw, lines 179-203: the loop over lines.get(index)
DrawContent(acc, st, lines, index, start_y, link_index) ==
    IF acc.panicked \/ index >= Len(lines) THEN acc
    ELSE LET line == lines[index + 1]
             fh   == FontHeight(st.font)
         IN IF Len(line) = 0
            THEN DrawContent(acc, st, lines, index + 1, start_y + fh, link_index)
            ELSE LET a1 == ViewBlit(acc, st, line, st.foreground, st.background,
                                    start_y, "line")
                     a2 == IF StartsWithArrow(line) /\ st.mode = LINK_MODE
                           THEN ViewBlit(a1, st, UsizeToString(link_index), st.background,
                                         st.foreground, start_y, "link")
                           ELSE a1
                 IN IF a2.panicked \/ start_y + fh + 3 * fh > st.window_height
                    THEN a2
                    ELSE DrawContent(a2, st, lines, index + 1, start_y + fh,
                                     link_index + (IF StartsWithArrow(line) THEN 1 ELSE 0))

\* State::draw, lines 205-211: the mode line at window_height - font_height.
\* The subtraction underflows when the window is lower than the font: a panic
\* with overflow checks; without them the row wraps modulo 2^64, and the blit
\* is a no-op for a block of width 0 and a slice out of range otherwise.
DrawModeLine(acc, st, checks) ==
    IF acc.panicked THEN acc
    ELSE IF st.window_height >= FontHeight(st.font)
    THEN ViewBlit(acc, st, st.mode, st.background, st.foreground,
                  st.window_height - FontHeight(st.font), "mode")
    ELSE IF checks \/ DrawWidth(st.mode, st.font) > 0
    THEN [acc EXCEPT !.panicked = TRUE]
    ELSE [acc EXCEPT !.blits = Append(@, [kind |-> "mode",
                                           row |-> st.window_height - FontHeight(st.font),
                                           wrapped |-> TRUE])]

\* State::draw on the frame the caller hands in
StateDraw(st, frame, checks) ==
    LET a1 == ViewBlit([panicked |-> FALSE, frame |-> frame, blits |-> <<>>], st,
                       st.page_address, st.background, st.foreground, 0, "address")
    IN IF a1.panicked THEN a1
       ELSE IF st.starting_line > Len(st.content_lines)
       THEN [a1 EXCEPT !.panicked = TRUE]
       ELSE DrawModeLine(
                DrawContent(a1, st,
                            SubSeq(st.content_lines, st.starting_line + 1,
                                   Len(st.content_lines)),
                            0, FontHeight(st.font), 0),
                st, checks)

\* the inputs of the calls on State
ViewAddresses == {<<>>, <<"a">>}
ViewContents ==
    {<<>>, <<"a">>, <<"a", NL, "a", SP, "a">>, <<NL, NL, "a">>,
     <<"=", ">", "a", NL, "=", ">", "a">>}
ViewWidths == {0, 2, 5}
ViewHeights == {0, 1, 4, 10}
ViewModes == {NORMAL_MODE, INSERT_MODE, LINK_MODE}
ViewStarts == {0, 1, 2}

---------------------------------------------------------------------------
(* The components are independent: each specification runs one of them     *)
(* and leaves the others as constructed with empty inputs.                 *)

IdleWrap == text = <<>> /\ text0 = <<>> /\ breaklist = <<0>> /\ maxwidth = None
            /\ font = "prop" /\ prev = None /\ lines_out = NotCalled
IdleGraph == inner = <<>> /\ range = [min |-> None, max |-> None]
             /\ capacity = 0 /\ pushed = <<>>
IdleState == state = StateNew("prop", White, Black, <<>>, <<>>, 0, 0) /\ deque = <<>>
             /\ pc = "idle" /\ entry = None /\ shown = None
IdleDraw == canvas = [width |-> 0, height |-> 0, frame |-> <<>>]
            /\ block = None /\ drawn = None /\ blit = None

---------------------------------------------------------------------------
(* Specification of WrappedText *)

WrapInputs ==
    {<<t, a[2], a[1]>> : t \in Texts, a \in RewrapArgs}
        \cup {<<ScenarioText, Some(25), "mono10">>}

InitWrap ==
    /\ \E in \in WrapInputs :
          /\ text = in[1]
          /\ text0 = in[1]
          /\ maxwidth = in[2]
          /\ font = in[3]
          /\ breaklist = NewWithoutWidth(in[1], in[2], in[3])
    /\ prev = None
    /\ lines_out = NotCalled
    /\ IdleGraph
    /\ IdleState
    /\ IdleDraw

DoRewrap ==
    \E a \in RewrapArgs :
        /\ breaklist' = Rewrap(text, breaklist, a[2], a[1])
        /\ maxwidth' = a[2]
        /\ font' = a[1]
        /\ prev' = Some(breaklist)
        /\ lines_out' = NotCalled
        /\ UNCHANGED <<text, text0, graphVars, stateVars, drawVars>>

DoLines ==
    /\ lines_out' = [called |-> TRUE,
                     panicked |-> Lines(text, breaklist).panicked,
                     items |-> Lines(text, breaklist).items]
    /\ UNCHANGED <<text, breaklist, maxwidth, font, text0, prev, graphVars, stateVars, drawVars>>

NextWrap == DoRewrap \/ DoLines

SpecWrap == InitWrap /\ [][NextWrap]_vars

---------------------------------------------------------------------------
(* Specification of Graph *)

InitGraph ==
    /\ \E n \in 0..MaxCap :
          /\ capacity = n
          /\ inner = GraphNew(n).inner
          /\ range = GraphNew(n).range
    /\ pushed = <<>>
    /\ IdleWrap
    /\ IdleState
    /\ IdleDraw

WithMin ==
    /\ \E min \in ClampBounds : range' = [range EXCEPT !.min = Some(min)]
    /\ UNCHANGED <<inner, capacity, pushed, wrapVars, stateVars, drawVars>>

WithMax ==
    /\ \E max \in ClampBounds : range' = [range EXCEPT !.max = Some(max)]
    /\ UNCHANGED <<inner, capacity, pushed, wrapVars, stateVars, drawVars>>

WithRange ==
    /\ \E min \in ClampBounds, max \in ClampBounds :
          range' = [min |-> Some(min), max |-> Some(max)]
    /\ UNCHANGED <<inner, capacity, pushed, wrapVars, stateVars, drawVars>>

Push ==
    /\ Len(pushed) < MaxPushes
    /\ \E v \in Values :
          /\ inner' = GraphPush(inner, v)
          /\ pushed' = Append(pushed, v)
    /\ UNCHANGED <<range, capacity, wrapVars, stateVars, drawVars>>

NextGraph == WithMin \/ WithMax \/ WithRange \/ Push

SpecGraph == InitGraph /\ [][NextGraph]_vars

---------------------------------------------------------------------------
(* Specification of State::prepare_lines *)

InitLines ==
    /\ \E f \in Fonts, content \in PageTexts, w \in 0..MaxWindow :
          state = StateNew(f, White, Black, <<>>, content, w, 0)
    /\ deque = <<>>
    /\ pc = "idle"
    /\ entry = None
    /\ shown = None
    /\ IdleWrap
    /\ IdleGraph
    /\ IdleDraw

\* lines 117-119: the logical lines are queued, content_lines is cleared
PrepareLinesBegin ==
    /\ pc \in {"idle", "done"}
    /\ deque' = StrLines(state.page_content)
    /\ state' = ClearLines(state)
    /\ pc' = "running"
    /\ entry' = Some([state |-> state, again |-> pc = "done"])
    /\ UNCHANGED <<shown, wrapVars, graphVars, drawVars>>

\* lines 121-141: one pass of the outer loop
PrepareLinesIter ==
    /\ pc = "running"
    /\ deque # <<>>
    /\ Len(state.content_lines) < OutCap
    /\ LET r == IterOutcome(Head(deque), state.font, state.window_width)
       IN IF r.panic
          THEN /\ pc' = "panicked"
               /\ deque' = Tail(deque)
               /\ UNCHANGED state
          ELSE /\ pc' = "running"
               /\ deque' = (IF IsSome(r.requeue) THEN <<Unwrap(r.requeue)>> ELSE <<>>)
                              \o Tail(deque)
               /\ state' = [state EXCEPT !.content_lines = Append(@, r.out)]
    /\ UNCHANGED <<entry, shown, wrapVars, graphVars, drawVars>>

\* line 121: pop_front() returns None and prepare_lines returns
PrepareLinesEnd ==
    /\ pc = "running"
    /\ deque = <<>>
    /\ pc' = "done"
    /\ UNCHANGED <<state, deque, entry, shown, wrapVars, graphVars, drawVars>>

NextLines == PrepareLinesBegin \/ PrepareLinesIter \/ PrepareLinesEnd

SpecLines == InitLines /\ [][NextLines]_vars

---------------------------------------------------------------------------
(* Specification of the compositor and the blitter *)

InitDraw ==
    /\ \E w \in 1..MaxFbW, h \in 1..MaxFbH :
          \E fr \in Frames(w, h) : canvas = [width |-> w, height |-> h, frame |-> fr]
    /\ block = None
    /\ drawn = None
    /\ blit = None
    /\ IdleWrap
    /\ IdleGraph
    /\ IdleState

DoDraw ==
    /\ blit = None
    /\ block = None
    /\ \E f \in DrawFonts :
          \E line \in DrawLines(f), c \in DrawColours :
              /\ block' = Some(Draw(line, f, c[1], c[2], c[3]))
              /\ drawn' = Some([line |-> line, font |-> f, state_background |-> c[1],
                                fg |-> c[2], bg |-> c[3]])
    /\ UNCHANGED <<canvas, blit, wrapVars, graphVars, stateVars>>

DoBlit ==
    /\ IsSome(block)
    /\ \E start_y \in 0..MaxFbH :
          LET r == DrawOntoPixels(Unwrap(block), canvas.frame, canvas.width, start_y)
          IN /\ canvas' = [canvas EXCEPT !.frame = r.frame]
             /\ blit' = Some([block |-> Unwrap(block), start_y |-> start_y,
                              before |-> canvas.frame, panicked |-> r.panicked])
    /\ block' = None
    /\ UNCHANGED <<drawn, wrapVars, graphVars, stateVars>>

NextDraw == DoDraw \/ DoBlit

SpecDraw == InitDraw /\ [][NextDraw]_vars

---------------------------------------------------------------------------
(* Specification of State: the setters, prepare_lines and draw *)

InitView ==
    /\ \E a \in ViewAddresses, c \in ViewContents, w \in ViewWidths, h \in ViewHeights :
          state = StateNew("prop", White, Black, a, c, w, h)
    /\ deque = <<>>
    /\ pc = "idle"
    /\ entry = None
    /\ shown = None
    /\ IdleWrap
    /\ IdleGraph
    /\ IdleDraw

\* State::update
Update ==
    /\ pc \in {"idle", "done"}
    /\ \E a \in ViewAddresses, c \in ViewContents :
          state' = [state EXCEPT !.page_address = a, !.page_content = c]
    /\ pc' = "idle"
    /\ entry' = None
    /\ shown' = None
    /\ UNCHANGED <<deque, wrapVars, graphVars, drawVars>>

\* State::resize
ResizeWindow ==
    /\ pc \in {"idle", "done"}
    /\ \E w \in ViewWidths, h \in ViewHeights :
          state' = [state EXCEPT !.window_width = w, !.window_height = h]
    /\ pc' = "idle"
    /\ entry' = None
    /\ shown' = None
    /\ UNCHANGED <<deque, wrapVars, graphVars, drawVars>>

\* State::set_starting_line
SetStartingLine ==
    /\ pc \in {"idle", "done"}
    /\ \E n \in ViewStarts : state' = [state EXCEPT !.starting_line = n]
    /\ pc' = "idle"
    /\ entry' = None
    /\ shown' = None
    /\ UNCHANGED <<deque, wrapVars, graphVars, drawVars>>

\* State::set_mode
SetMode ==
    /\ pc \in {"idle", "done"}
    /\ \E m \in ViewModes : state' = [state EXCEPT !.mode = m]
    /\ pc' = "idle"
    /\ entry' = None
    /\ shown' = None
    /\ UNCHANGED <<deque, wrapVars, graphVars, drawVars>>

\* State::draw on a buffer of the window's size
DrawState ==
    /\ pc \in {"idle", "done"}
    /\ \E fr \in Frames(state.window_width, state.window_height), checks \in BOOLEAN :
          shown' = Some(StateDraw(state, fr, checks))
    /\ UNCHANGED <<state, deque, pc, entry, wrapVars, graphVars, drawVars>>

NextView ==
    \/ Update
    \/ ResizeWindow
    \/ SetStartingLine
    \/ SetMode
    \/ PrepareLinesBegin
    \/ PrepareLinesIter
    \/ PrepareLinesEnd
    \/ DrawState

SpecView == InitView /\ [][NextView]_vars

---------------------------------------------------------------------------
(* Claims *)

\* C1: prepare_lines terminates for every page_content and window_width.
\* A pass of the outer loop is a function of the deque alone (font and
\* window_width are fixed during the call), so the call can only terminate
\* if no pass leaves the deque as it found it.
C1_EveryPassChangesDeque ==
    [][(pc = "running" /\ pc' = "running") => deque' # deque]_vars

\* C2: len() equals the capacity given to Graph::new, after construction and
\* after every push, for every capacity n >= 0.
C2_LenIsCapacity == GraphLen(inner) = capacity

\* C3: the BreakList produced by rewrap is strictly increasing.
C3_StrictlyIncreasing ==
    \A i \in 1..(Len(breaklist) - 1) : breaklist[i] < breaklist[i + 1]

\* C4: the BreakList is non-empty, every offset is a character boundary of
\* the text within 0..=len, the last offset is the byte length of the text,
\* and the empty text yields exactly [0].
C4_BoundariesValid ==
    /\ Len(breaklist) >= 1
    /\ \A i \in 1..Len(breaklist) :
          /\ 0 <= breaklist[i] /\ breaklist[i] <= StrLen(text)
          /\ IsCharBoundary(text, breaklist[i])
    /\ breaklist[Len(breaklist)] = StrLen(text)
    /\ text = <<>> => breaklist = <<0>>

\* C4 witness: a text with a multi-byte character, wrapped at a width, with
\* at least two breaks before the final boundary.
C4_Witness ==
    /\ IsSome(maxwidth)
    /\ StrLen(text) > Len(text)
    /\ Len(breaklist) >= 3
    /\ IsSome(prev)

\* C5: "ab cd ef", every glyph 10 wide, max_width 25: lines() yields exactly
\* ["ab", "cd", "ef"] and lines_count() is 3.
C5_ScenarioThreeLines ==
    (text = ScenarioText /\ maxwidth = Some(25) /\ font = "mono10" /\ lines_out.called)
        => /\ LinesCount(breaklist) = 3
           /\ ~lines_out.panicked
           /\ lines_out.items = << <<"a", "b">>, <<"c", "d">>, <<"e", "f">> >>

\* the characters of txt between the (k-1)-th and the k-th break
RawLine(txt, bl, k) ==
    SubSeq(txt, BoundaryIndex(txt, IF k = 1 THEN 0 ELSE bl[k - 1]) + 1,
                BoundaryIndex(txt, bl[k]))

\* C6: lines() yields lines_count() slices without panicking, one per pair of
\* consecutive boundaries; a slice loses its first byte iff its first
\* character is whitespace, and an empty slice is yielded unchanged.
C6_LinesTotal ==
    lines_out.called =>
        /\ ~lines_out.panicked
        /\ Len(lines_out.items) = LinesCount(breaklist)
        /\ \A k \in 1..Len(lines_out.items) :
              LET raw  == RawLine(text, breaklist, k)
                  item == lines_out.items[k]
              IN IF raw # <<>> /\ IsWhitespace(raw[1])
                 THEN /\ StrLen(item) = StrLen(raw) - 1
                      /\ item = SubSeq(raw, Len(raw) - Len(item) + 1, Len(raw))
                 ELSE item = raw

\* C7: after prepare_lines, every output line whose words each fit the
\* window is itself no wider than window_width.
C7_LinesFit ==
    pc = "done" =>
        \A i \in 1..Len(state.content_lines) :
            LET line  == state.content_lines[i]
                words == SplitWhitespace(line)
            IN (\A j \in 1..Len(words) :
                    Width(words[j], state.font) <= state.window_width)
               => Width(line, state.font) <= state.window_width

RECURSIVE NewlineOffsets(_, _)
\* the byte offsets of the "\n" characters of txt from position k on
NewlineOffsets(txt, k) ==
    IF k > Len(txt) THEN <<>>
    ELSE (IF txt[k] = NL THEN <<ByteOffset(txt, k - 1)>> ELSE <<>>)
             \o NewlineOffsets(txt, k + 1)

\* C8: with max_width = None the BreakList is exactly the offsets of the
\* "\n" characters, in order, followed by the byte length of the text,
\* whatever the glyph widths.
C8_NoWrapPassthrough ==
    ~IsSome(maxwidth) =>
        breaklist = NewlineOffsets(text, 1) \o <<StrLen(text)>>

\* C8 witness: a rewrap without width of a text with a newline and wide
\* glyphs, whose previous (width-wrapped) list was longer.
C8_Witness ==
    /\ ~IsSome(maxwidth)
    /\ font = "mono10"
    /\ \E k \in 1..Len(text) : text[k] = NL
    /\ Len(text) >= 3
    /\ IsSome(prev)
    /\ Len(Unwrap(prev)) > Len(breaklist)

\* C9: after any sequence of rewrap calls the BreakList is the one a fresh
\* new_without_width builds for the last (max_width, font), and the text is
\* the text given at construction.
C9_RewrapIsFresh ==
    /\ breaklist = NewWithoutWidth(text0, maxwidth, font)
    /\ text = text0

\* C9 witness: a rewrap that replaced a longer list by a shorter one.
C9_Witness ==
    /\ IsSome(prev)
    /\ Len(Unwrap(prev)) > Len(breaklist)
    /\ Len(breaklist) >= 2
    /\ IsSome(maxwidth)

\* what C10 expects iter() to yield after the pushes ps on capacity n
NewestFirst(ps, n) ==
    LET k == Min2(Len(ps), n)
    IN [i \in 1..n |-> IF i <= k THEN ps[Len(ps) - i + 1] ELSE 0]

\* C10: for n >= 1 and no clamp range, iter() yields n values: the last
\* min(k, n) pushed values, newest first, then the remaining initial 0.0;
\* new(3) and pushes 1, 2, 3, 4 yield [4, 3, 2].
C10_NewestFirst ==
    (capacity >= 1 /\ ~IsSome(range.min) /\ ~IsSome(range.max)) =>
        /\ GraphIter(inner, range) = NewestFirst(pushed, capacity)
        /\ (capacity = 3 /\ pushed = <<1, 2, 3, 4>>)
               => GraphIter(inner, range) = <<4, 3, 2>>

\* C10 witness: the scenario, the oldest value evicted.
C10_Witness ==
    /\ capacity = 3
    /\ pushed = <<1, 2, 3, 4>>
    /\ ~IsSome(range.min) /\ ~IsSome(range.max)
    /\ GraphIter(inner, range) = <<4, 3, 2>>

\* C11: with a range [lo, hi] configured, every value iter() yields lies in
\* [lo, hi] and equals the stored value when that is inside the range; the
\* storage seen through inner_mut holds the pushed values unclamped, newest
\* first, then the initial 0.0 entries.
C11_ClampOnRead ==
    /\ \A i \in 1..Len(inner) :
          InnerMut(inner)[i] =
              IF i <= Len(pushed) THEN pushed[Len(pushed) - i + 1] ELSE 0
    /\ (IsSome(range.min) /\ IsSome(range.max)
            /\ Unwrap(range.min) <= Unwrap(range.max)) =>
          \A i \in 1..Len(inner) :
              LET v  == inner[i]
                  v1 == GraphIter(inner, range)[i]
              IN /\ Unwrap(range.min) <= v1 /\ v1 <= Unwrap(range.max)
                 /\ (Unwrap(range.min) <= v /\ v <= Unwrap(range.max)) => v1 = v

\* C11 witness: range [1, 3], a value below, one inside and one above it
\* pushed in that order and read back clamped.
C11_Witness ==
    /\ range = [min |-> Some(1), max |-> Some(3)]
    /\ capacity = 3
    /\ pushed = <<-1, 2, 4>>
    /\ InnerMut(inner) = <<4, 2, -1>>
    /\ GraphIter(inner, range) = <<3, 2, 1>>

\* the set of values iter() yields
IterValues(q, r) == {GraphIter(q, r)[i] : i \in 1..Len(q)}

\* C12: on an empty buffer min() and max() are 0.0; otherwise min() is the
\* configured lower bound when one is set and else the smallest value
\* iter() yields, and max() is the configured upper bound when one is set
\* and else the largest value iter() yields.
C12_MinMax ==
    /\ GraphIsEmpty(inner) => GraphMin(inner, range) = 0 /\ GraphMax(inner, range) = 0
    /\ (~GraphIsEmpty(inner) /\ IsSome(range.min)) =>
          GraphMin(inner, range) = Unwrap(range.min)
    /\ (~GraphIsEmpty(inner) /\ IsSome(range.max)) =>
          GraphMax(inner, range) = Unwrap(range.max)
    /\ (~GraphIsEmpty(inner) /\ ~IsSome(range.min)) =>
          /\ GraphMin(inner, range) \in IterValues(inner, range)
          /\ \A x \in IterValues(inner, range) : GraphMin(inner, range) <= x
    /\ (~GraphIsEmpty(inner) /\ ~IsSome(range.max)) =>
          /\ GraphMax(inner, range) \in IterValues(inner, range)
          /\ \A x \in IterValues(inner, range) : x <= GraphMax(inner, range)

\* C12 witness: only an upper bound is set and every stored value is above
\* it: max() is the bound and min() is the smallest clamped value.
C12_Witness ==
    /\ ~IsSome(range.min)
    /\ range.max = Some(1)
    /\ capacity = 2
    /\ inner = <<4, 3>>
    /\ GraphMin(inner, range) = 1
    /\ GraphMax(inner, range) = 1

\* pixel x of framebuffer row `row`: the PIXEL_SIZE bytes at (row * stride + x)
FramePixel(frame, stride, row, x) ==
    SubSeq(frame, (row * stride + x) * PIXEL_SIZE + 1, (row * stride + x + 1) * PIXEL_SIZE)

\* after a blit of block b at row r: no panic, and row y of the block is in the
\* first BlockWidth(b) pixels of framebuffer row r + y
RowsReadBack(b, r) ==
    /\ ~Unwrap(blit).panicked
    /\ BlockWidth(b) <= canvas.width
    /\ \A y \in 0..(b.height - 1) : \A x \in 0..(BlockWidth(b) - 1) :
          FramePixel(canvas.frame, canvas.width, r + y, x) = b.pixels[y * BlockWidth(b) + x + 1]

\* C13 as stated: after blitting a block of height H at start row r into a
\* framebuffer with at least r + H rows, every framebuffer row r + y holds
\* block row y in its first w pixels, for every block width w.
C13_RowFidelityAnyWidth ==
    IsSome(blit) =>
        LET b == Unwrap(blit).block
            r == Unwrap(blit).start_y
        IN (BlockWidth(b) > 0 /\ r + b.height <= canvas.height) => RowsReadBack(b, r)

\* C13 amended: the same read-back for every block width w that is at most
\* the framebuffer's pixel stride (narrower blocks included).
C13_RowFidelity ==
    IsSome(blit) =>
        LET b == Unwrap(blit).block
            r == Unwrap(blit).start_y
        IN (BlockWidth(b) > 0 /\ BlockWidth(b) <= canvas.width
            /\ r + b.height <= canvas.height) => RowsReadBack(b, r)

C13_Witness ==
    /\ IsSome(blit)
    /\ BlockWidth(Unwrap(blit).block) = 2
    /\ Unwrap(blit).block.height = 2
    /\ canvas.width = 3
    /\ canvas.height = 4
    /\ Unwrap(blit).start_y = 1
    /\ ~Unwrap(blit).panicked
    /\ canvas.frame # Unwrap(blit).before

\* C14: a blit never changes the frame's length, changes no byte outside
\* framebuffer rows start_y .. start_y + height - 1, and a block of width 0
\* leaves the frame as it was.
C14_BlitStaysInRows ==
    IsSome(blit) =>
        LET b == Unwrap(blit).block
            r == Unwrap(blit).start_y
            before == Unwrap(blit).before
        IN /\ Len(canvas.frame) = Len(before)
           /\ \A i \in 1..Len(before) :
                 canvas.frame[i] # before[i] =>
                    /\ i > r * canvas.width * PIXEL_SIZE
                    /\ i <= (r + b.height) * canvas.width * PIXEL_SIZE
           /\ BlockWidth(b) = 0 => (canvas.frame = before /\ ~Unwrap(blit).panicked)

RECURSIVE GlyphColumns(_, _)
\* the columns the characters of a line take: its glyph's width for a character
\* that has one, none for the others
GlyphColumns(line, f) ==
    IF Len(line) = 0 THEN 0
    ELSE (IF IsSome(Glyph(f, line[1])) THEN Unwrap(Glyph(f, line[1])) ELSE 0)
         + GlyphColumns(Tail(line), f)

\* C15: the block draw returns is as wide as the glyphs of the line's
\* characters that have one, which is what Draw::width returns for the line;
\* an empty line gives a block of width 0 with no pixels.
C15_WidthConservation ==
    IsSome(block) =>
        LET b == Unwrap(block)
            d == Unwrap(drawn)
        IN /\ BlockWidth(b) = GlyphColumns(d.line, d.font)
           /\ BlockWidth(b) = Width(d.line, d.font)
           /\ Len(b.pixels) = b.height * BlockWidth(b)
           /\ d.line = <<>> => (BlockWidth(b) = 0 /\ b.pixels = <<>>)

C15_Witness ==
    /\ IsSome(block)
    /\ Unwrap(drawn).font = "prop"
    /\ Unwrap(drawn).line = <<"a", NBSP>>
    /\ BlockWidth(Unwrap(block)) = 2

\* C16: every pixel of the block draw returns is the fg or the bg argument; the
\* pixel at column x0 + xg, row y is fg exactly when cell (xg, y) of the glyph
\* at cursor x0 is set, the cursor being the sum of the widths of the glyphs
\* before it; one 3x3 diagonal glyph gives 3 fg pixels on the diagonal, 6 bg.
C16_CoverageColours ==
    IsSome(block) =>
        LET b == Unwrap(block)
            d == Unwrap(drawn)
            chars == GlyphChars(d.line, d.font)
            w == BlockWidth(b)
        IN /\ \A i \in 1..Len(b.pixels) : b.pixels[i] \in {d.fg, d.bg}
           /\ \A k \in 1..Len(chars) :
                 LET x0 == SumWidths(SubSeq(chars, 1, k - 1), d.font)
                     rows == GlyphRows(d.font, chars[k])
                 IN \A y \in 0..(b.height - 1) :
                       \A xg \in 0..(Unwrap(Glyph(d.font, chars[k])) - 1) :
                           b.pixels[y * w + x0 + xg + 1]
                               = IF rows[y + 1][xg + 1] THEN d.fg ELSE d.bg
           /\ (d.font = "diag" /\ d.line = <<"A">>) =>
                 b.pixels = <<d.fg, d.bg, d.bg, d.bg, d.fg, d.bg, d.bg, d.bg, d.fg>>

C16_Witness ==
    /\ IsSome(block)
    /\ Unwrap(drawn).font = "diag"
    /\ Unwrap(drawn).line = <<"A", "A">>
    /\ Unwrap(drawn).state_background \notin {Unwrap(drawn).fg, Unwrap(drawn).bg}
    /\ Len(Unwrap(block).pixels) = 18
    /\ Unwrap(block).pixels[4] = Unwrap(drawn).fg
    /\ Unwrap(block).pixels[5] = Unwrap(drawn).bg

RECURSIVE AllWords(_)
\* the words of a sequence of lines, in order
AllWords(ls) == IF Len(ls) = 0 THEN <<>> ELSE SplitWhitespace(ls[1]) \o AllWords(Tail(ls))

RECURSIVE LinesCover(_, _)
RECURSIVE WordsCover(_, _, _)
\* the output lines outs are the logical lines ls one after the other, each
\* logical line cut into one or more output lines of its own words (a logical
\* line without words gives one output line without words)
LinesCover(ls, outs) ==
    IF Len(ls) = 0 THEN Len(outs) = 0
    ELSE IF SplitWhitespace(ls[1]) = <<>>
         THEN /\ Len(outs) > 0
              /\ SplitWhitespace(outs[1]) = <<>>
              /\ LinesCover(Tail(ls), Tail(outs))
         ELSE WordsCover(SplitWhitespace(ls[1]), Tail(ls), outs)

\* the words ws still to come of the current logical line, then the lines ls
WordsCover(ws, ls, outs) ==
    IF Len(ws) = 0 THEN LinesCover(ls, outs)
    ELSE /\ Len(outs) > 0
         /\ LET ow == SplitWhitespace(outs[1])
            IN /\ Len(ow) > 0
               /\ Len(ow) <= Len(ws)
               /\ SubSeq(ws, 1, Len(ow)) = ow
               /\ WordsCover(SubSeq(ws, Len(ow) + 1, Len(ws)), ls, Tail(outs))

\* C17: when prepare_lines completes, the words of content_lines in order are
\* the words of page_content in order, and every output line holds words of
\* one logical line only.
C17_WordsPreserved ==
    pc = "done" =>
        /\ AllWords(state.content_lines) = SplitWhitespace(state.page_content)
        /\ LinesCover(StrLines(state.page_content), state.content_lines)

C17_Witness ==
    /\ pc = "done"
    /\ state.page_content = <<"a", SP, "b", SP, "a">>
    /\ state.content_lines = << <<"a">>, <<"b", SP, "a">> >>

\* a line as lines() shows it: without its leading whitespace character
Shown(raw) == IF raw # <<>> /\ IsWhitespace(raw[1]) THEN Tail(raw) ELSE raw

\* C18: with max_width = Some(W) and no glyph of the font wider than W, every
\* line delimited by the BreakList, its leading separating whitespace dropped,
\* is at most W wide.
C18_LinesWithinMaxWidth ==
    (IsSome(maxwidth)
     /\ \A ch \in Alphabet \cup Letters : GlyphWidth(font, ch) <= Unwrap(maxwidth)) =>
        \A k \in 1..Len(breaklist) :
            Width(Shown(RawLine(text, breaklist, k)), font) <= Unwrap(maxwidth)

\* the last offset of a break list, -1 when it is empty
LastBreak(bl) == IF Len(bl) = 0 THEN -1 ELSE bl[Len(bl)]

\* the offsets of the whitespace characters among the first k characters of
\* txt that come after the offset prevbreak
WhitespaceSince(txt, k, prevbreak) ==
    {ByteOffset(txt, j - 1) : j \in {n \in 1..k : IsWhitespace(txt[n])
                                                  /\ ByteOffset(txt, n - 1) > prevbreak}}

SetMax(S) == CHOOSE x \in S : \A y \in S : y <= x

\* C19: when the character at offset i makes scrap_width + glyph_width exceed
\* max_width, the offset pushed is that of the most recent whitespace seen
\* since the previously committed break, and i when there is none; a whitespace
\* offset at or before the previous break is never pushed.
C19_BreakAtRecentWhitespace ==
    IsSome(maxwidth) =>
        \A k \in 1..Len(text) :
            LET st  == Scan(text, <<>>, maxwidth, font, k - 1)
                st1 == Scan(text, <<>>, maxwidth, font, k)
                i   == ByteOffset(text, k - 1)
                ws  == WhitespaceSince(text, k, LastBreak(st.breaklist))
            IN (text[k] # NL
                /\ st.scrapwidth + GlyphWidth(font, text[k]) > Unwrap(maxwidth)) =>
                   /\ Len(st1.breaklist) = Len(st.breaklist) + 1
                   /\ LastBreak(st1.breaklist) = IF ws # {} THEN SetMax(ws) ELSE i

\* C20: with max_width set, a character whose glyph is zero wide or missing
\* never makes rewrap push an offset, whatever text precedes it.
C20_ZeroWidthNeverBreaks ==
    IsSome(maxwidth) =>
        \A k \in 1..Len(text) :
            (text[k] # NL /\ GlyphWidth(font, text[k]) = 0) =>
                Scan(text, <<>>, maxwidth, font, k).breaklist
                    = Scan(text, <<>>, maxwidth, font, k - 1).breaklist

\* C21: with max_width smaller than every glyph of the font, the BreakList is
\* the offset of every character of the text in order (a width-break at each
\* non-newline character's own offset), followed by the final boundary.
C21_OneBreakPerChar ==
    (IsSome(maxwidth)
     /\ \A ch \in Alphabet \cup Letters :
           IsSome(Glyph(font, ch)) /\ Unwrap(Glyph(font, ch)) > Unwrap(maxwidth)) =>
        breaklist = [k \in 1..Len(text) |-> ByteOffset(text, k - 1)] \o <<StrLen(text)>>

\* C22: in both modes every newline offset is in the BreakList; a newline
\* pushes its offset and resets scrap_width, word_width and last_whitespace;
\* a width-break after a newline is at an offset greater than the newline's.
C22_NewlineResets ==
    /\ \A k \in 1..Len(text) :
          text[k] = NL => \E n \in 1..Len(breaklist) : breaklist[n] = ByteOffset(text, k - 1)
    /\ \A k \in 1..Len(text) :
          LET st  == Scan(text, <<>>, maxwidth, font, k - 1)
              st1 == Scan(text, <<>>, maxwidth, font, k)
          IN /\ text[k] = NL =>
                   st1 = [scrapwidth |-> 0, wordwidth |-> 0, last_whitespace |-> None,
                          breaklist |-> Append(st.breaklist, ByteOffset(text, k - 1))]
             /\ (text[k] # NL /\ st1.breaklist # st.breaklist) =>
                   \A j \in 1..(k - 1) :
                       text[j] = NL => LastBreak(st1.breaklist) > ByteOffset(text, j - 1)

C22_Witness ==
    /\ text = <<SP, NL, "a", "a">>
    /\ font = "prop"
    /\ maxwidth = Some(2)
    /\ breaklist = <<1, 3, 4>>

\* the start offset lines() has when it takes the k-th breakpoint
Runner(bl, k) == IF k = 1 THEN 0 ELSE bl[k - 1]

\* C24: the BreakList is non-decreasing, so in lines() the running start
\* offset never exceeds the next breakpoint and every slice text[start..end]
\* has start <= end <= len.
C24_NonDecreasing ==
    /\ \A k \in 1..(Len(breaklist) - 1) : breaklist[k] <= breaklist[k + 1]
    /\ \A k \in 1..Len(breaklist) :
          /\ Runner(breaklist, k) <= breaklist[k]
          /\ breaklist[k] <= StrLen(text)
          /\ StrSliceOk(text, Runner(breaklist, k), breaklist[k])

C24_Witness ==
    /\ text = <<SP, "a", "a">>
    /\ maxwidth = Some(2)
    /\ font = "prop"
    /\ breaklist = <<0, 0, 3>>
    /\ lines_out.called
    /\ lines_out.items = <<<<>>, <<>>, <<"a", "a">>>>

RECURSIVE Concat(_)
\* the slices one after the other
Concat(items) == IF Len(items) = 0 THEN <<>> ELSE items[1] \o Concat(Tail(items))

\* a text with its whitespace characters deleted
NoWhitespace(s) == SelectSeq(s, LAMBDA ch : ~IsWhitespace(ch))

\* C25: lines() yields its slices, and together, whitespace deleted, they are
\* the text with its whitespace deleted; a slice lacks at most one character
\* of the stretch between its two boundaries.
C25_OnlyWhitespaceDropped ==
    lines_out.called =>
        /\ ~lines_out.panicked
        /\ NoWhitespace(Concat(lines_out.items)) = NoWhitespace(text)
        /\ \A k \in 1..Len(lines_out.items) :
              Len(lines_out.items[k]) >= Len(RawLine(text, breaklist, k)) - 1

\* C28: with max_width set, right after a width-break is committed at the
\* character at offset i, scrap_width is the sum of the glyph widths of the
\* characters from the committed break offset through that character, and
\* word_width equals scrap_width.
C28_ScrapAfterBreak ==
    IsSome(maxwidth) =>
        \A k \in 1..Len(text) :
            LET st  == Scan(text, <<>>, maxwidth, font, k - 1)
                st1 == Scan(text, <<>>, maxwidth, font, k)
            IN (text[k] # NL /\ st1.breaklist # st.breaklist) =>
                  /\ st1.scrapwidth
                        = Width(SubSeq(text, BoundaryIndex(text, LastBreak(st1.breaklist)) + 1, k),
                                font)
                  /\ st1.wordwidth = st1.scrapwidth

C28_Witness ==
    /\ text = <<"a", SP, "a">>
    /\ maxwidth = Some(3)
    /\ font = "prop"
    /\ breaklist = <<1, 3>>
    /\ Scan(text, <<>>, maxwidth, font, 3).scrapwidth = 3

\* C26: for a non-empty graph whose bounds, when both are set, are in order,
\* every value iter() yields lies between min() and max().
C26_IterWithinMinMax ==
    (~GraphIsEmpty(inner)
     /\ ((IsSome(range.min) /\ IsSome(range.max)) => Unwrap(range.min) <= Unwrap(range.max))) =>
        \A i \in 1..Len(inner) :
            /\ GraphMin(inner, range) <= GraphIter(inner, range)[i]
            /\ GraphIter(inner, range)[i] <= GraphMax(inner, range)

C26_Witness ==
    /\ range = [min |-> Some(3), max |-> None]
    /\ inner = <<-1, 0>>
    /\ GraphIter(inner, range) = <<3, 3>>
    /\ GraphMin(inner, range) = 3
    /\ GraphMax(inner, range) = 3

\* C23: State::draw completes without a fatal error; every blit it issues
\* has its rows inside the window, start row + font height <= window_height,
\* and the start rows of the content-line blits never decrease.
C23_DrawStaysInWindow ==
    IsSome(shown) =>
        LET d == Unwrap(shown)
            lineRows == SelectSeq(d.blits, LAMBDA b : b.kind = "line")
        IN /\ ~d.panicked
           /\ \A n \in 1..Len(d.blits) :
                 /\ ~d.blits[n].wrapped
                 /\ d.blits[n].row >= 0
                 /\ d.blits[n].row + FontHeight(state.font) <= state.window_height
           /\ \A n \in 1..(Len(lineRows) - 1) : lineRows[n].row <= lineRows[n + 1].row

\* C27: prepare_lines leaves page_content, page_address, mode, starting_line,
\* window_width and window_height (and every other field but content_lines)
\* as they were on entry; a second call right after a completed one ends with
\* the same content_lines, the earlier lines replaced, not added to.
C27_OnlyContentLines ==
    (pc \in {"running", "done", "panicked"} /\ IsSome(entry)) =>
        /\ [state EXCEPT !.content_lines = <<>>]
              = [Unwrap(entry).state EXCEPT !.content_lines = <<>>]
        /\ (pc = "done" /\ Unwrap(entry).again) =>
              state.content_lines = Unwrap(entry).state.content_lines

C27_Witness ==
    /\ pc = "done"
    /\ IsSome(entry)
    /\ Unwrap(entry).again
    /\ Len(state.content_lines) >= 2
    /\ Unwrap(entry).state.content_lines = state.content_lines
    /\ state.mode = LINK_MODE
    /\ state.starting_line = 1
    /\ state.page_address = <<"a">>
    /\ state.window_height = 10

===========================================================================
